---- MODULE Spec2Model ----
(***************************************************************************)
(* Model of the Music-Service ingestion pipeline:                          *)
(*   services/yandex_music_service.py  (YandexMusicService)                *)
(*   main.py                           (the /concerts and /track-lists     *)
(*                                      handlers)                          *)
(*   model/*.py, response/*.py         (the pydantic value objects)        *)
(*                                                                         *)
(* One call of the service is followed from its entry to the response it   *)
(* produces.  The upstream API is the environment: it answers the single   *)
(* GET of a call with a transport failure, or with an HTTP status and a    *)
(* body that either is not JSON or decodes to a JSON value of any shape.   *)
(***************************************************************************)
EXTENDS Integers, Sequences, FiniteSets, TLC

VARIABLES
    endpoint,   \* how the call entered: "/concerts", "/track-lists", "parse_artist"
    arg,        \* artist id (integer) or track-list URL (sequence of URL pieces)
    pc,         \* "idle" | "awaiting" (suspended in session.get) | "done"
    kind,       \* which continuation awaits the GET: "none" | "artist" | "concerts" | "playlist" | "album"
    ids,        \* identifiers the URL patterns captured: <<user_id, playlist_id>>, <<album_id>> or <<>>
    uri,        \* URI of the GET issued by the call (<<>> when none was issued)
    nfm,        \* not_found_message handed to the fetch
    resp,       \* upstream answer to the GET
    fetched,    \* how __fetch_yandex_music_api_data ended for that answer
    outcome,    \* how the service call ended
    extractorRan, \* whether an entity extractor was entered
    http,       \* response built by the HTTP handler
    session,    \* the service's __session attribute and the sessions created so far
    tasks,      \* the requests in flight on one service instance, each with its own frame
    response    \* the local variable `response` of each task's fetch

callVars == <<endpoint, arg, pc, kind, ids, uri, nfm, resp, fetched, outcome, extractorRan, http>>
lifeVars == <<session, tasks, response>>
vars == <<endpoint, arg, pc, kind, ids, uri, nfm, resp, fetched, outcome, extractorRan, http,
          session, tasks, response>>

-----------------------------------------------------------------------------
(* Bounds of the model.                                                    *)

MaxConcerts == 2
MaxTracks == 3
MaxTrackArtists == 1
MaxAlbumArtists == 3
MaxUrlLen == 5
MaxTasks == 2
MaxSetups == 1

-----------------------------------------------------------------------------
(* JSON values as decoded by response.json().  Strings are sequences of    *)
(* characters, so that emptiness, length and slicing are computed.         *)

JNull == [t |-> "null"]
JBool(b) == [t |-> "bool", v |-> b]
JInt(n) == [t |-> "int", v |-> n]
JStr(s) == [t |-> "str", v |-> s]
JList(s) == [t |-> "list", v |-> s]
JObj(f) == [t |-> "obj", f |-> f]

\* Marker used only while building objects: the key is left out.
Absent == [t |-> "absent"]
MkObj(rec) == JObj([k \in {x \in DOMAIN rec : rec[x].t # "absent"} |-> rec[k]])

IsDict(j) == j.t = "obj"
IsNone(j) == j.t = "null"

\* Python truthiness of a decoded JSON value.
Truthy(j) ==
    CASE j.t = "null" -> FALSE
      [] j.t = "bool" -> j.v
      [] j.t = "int" -> j.v # 0
      [] j.t = "str" -> Len(j.v) > 0
      [] j.t = "list" -> Len(j.v) > 0
      [] j.t = "obj" -> DOMAIN j.f # {}

-----------------------------------------------------------------------------
(* Results of Python expressions: a value, or a raised exception.          *)

Return(v) == [exc |-> "none", v |-> v]
Raise(e) == [exc |-> e, v |-> JNull]
Raised(r) == r.exc # "none"

\* d[key]
get_dict_value(d, key) ==
    IF ~IsDict(d) THEN Raise("TypeError")
    ELSE IF key \in DOMAIN d.f THEN Return(d.f[key])
    ELSE Raise("KeyError")

\* d.get(key)
get_dict_value_or_none(d, key) ==
    IF ~IsDict(d) THEN Raise("AttributeError")
    ELSE IF key \in DOMAIN d.f THEN Return(d.f[key])
    ELSE Return(JNull)

\* d.get(key) is not None
contains_key(d, key) ==
    IF ~IsDict(d) THEN Raise("AttributeError")
    ELSE Return(JBool(key \in DOMAIN d.f /\ ~IsNone(d.f[key])))

-----------------------------------------------------------------------------
(* How a call of the service (or of one of its private coroutines) ends.   *)

NoMsg == [text |-> "", about |-> <<>>]
Msg(text, about) == [text |-> text, about |-> about]

Success(v) == [kind |-> "Success", msg |-> NoMsg, value |-> v]
NotFoundException(m) == [kind |-> "NotFoundException", msg |-> m, value |-> JNull]
InternalServiceErrorException(m) == [kind |-> "InternalServiceErrorException", msg |-> m, value |-> JNull]
RawException(e) == [kind |-> e, msg |-> NoMsg, value |-> JNull]
Pending == [kind |-> "pending", msg |-> NoMsg, value |-> JNull]

ServiceKinds == {"Success", "NotFoundException", "InternalServiceErrorException"}

-----------------------------------------------------------------------------
(* Upstream answers.                                                       *)

NotJson == [t |-> "notjson"]
TransportFailure == [fail |-> TRUE, status |-> 0, body |-> NotJson]
HttpAnswer(status, body) == [fail |-> FALSE, status |-> status, body |-> body]
NoResp == [fail |-> FALSE, status |-> 0, body |-> Absent]

\* The fetch with the client-error branch (lines 299-300) lost: a 4xx status falls
\* through to the unexpected-status error.
fetch_client_error_unclassified(r, u, not_found_message) ==
    IF r.fail \/ r.body.t = "notjson"
    THEN InternalServiceErrorException(Msg("Downloading JSON failed", u))
    ELSE IF 200 <= r.status /\ r.status <= 299
    THEN LET result == get_dict_value_or_none(r.body, "result")
         IN  IF Raised(result) THEN RawException(result.exc)
             ELSE IF Truthy(result.v) THEN Success(result.v)
             ELSE InternalServiceErrorException(Msg("Key result not found", u))
    ELSE InternalServiceErrorException(Msg("Yandex Music API returned", <<r.status, u>>))

\* The fetch with self.__session.get called before the try block: what the GET
\* raises leaves the fetch as it is.
fetch_get_outside_try(r, u, not_found_message) ==
    IF r.fail THEN RawException("RuntimeError")
    ELSE IF r.body.t = "notjson"
    THEN InternalServiceErrorException(Msg("Downloading JSON failed", u))
    ELSE IF 200 <= r.status /\ r.status <= 299
    THEN LET result == get_dict_value_or_none(r.body, "result")
         IN  IF Raised(result) THEN RawException(result.exc)
             ELSE IF Truthy(result.v) THEN Success(result.v)
             ELSE InternalServiceErrorException(Msg("Key result not found", u))
    ELSE IF 400 <= r.status /\ r.status <= 499
    THEN NotFoundException(not_found_message)
    ELSE InternalServiceErrorException(Msg("Yandex Music API returned", <<r.status, u>>))

\* __fetch_yandex_music_api_data, from the answer to the GET on.
fetch_yandex_music_api_data(r, u, not_found_message) ==
    IF r.fail \/ r.body.t = "notjson"
    THEN InternalServiceErrorException(Msg("Downloading JSON failed", u))
    ELSE IF 200 <= r.status /\ r.status <= 299
    THEN LET result == get_dict_value_or_none(r.body, "result")
         IN  IF Raised(result) THEN RawException(result.exc)
             ELSE IF Truthy(result.v) THEN Success(result.v)
             ELSE InternalServiceErrorException(Msg("Key result not found", u))
    ELSE IF 400 <= r.status /\ r.status <= 499
    THEN NotFoundException(not_found_message)
    ELSE InternalServiceErrorException(Msg("Yandex Music API returned", <<r.status, u>>))

\* __fetch_artist_data, from the answer to the GET on.
fetch_artist_data(r, u, not_found_message) ==
    LET result == fetch_yandex_music_api_data(r, u, not_found_message)
    IN  IF result.kind # "Success" THEN result
        ELSE LET has == contains_key(result.value, "artist")
             IN  IF Raised(has) THEN RawException(has.exc)
                 ELSE IF ~has.v.v
                 THEN InternalServiceErrorException(Msg("Response does not contain key artist", u))
                 ELSE LET artist_dict == get_dict_value(result.value, "artist").v
                          error == get_dict_value_or_none(artist_dict, "error")
                      IN  IF Raised(error) THEN RawException(error.exc)
                          ELSE IF Truthy(error.v) THEN NotFoundException(not_found_message)
                          ELSE result

-----------------------------------------------------------------------------
(* The pydantic value objects (model/*.py).  A constructor validates its   *)
(* keyword arguments against the declared fields; an argument that names   *)
(* no field is ignored (pydantic's default for extra arguments), and a     *)
(* field that gets no argument takes its declared default.                 *)

IsStr(j) == j.t = "str"
IsStrMin1(j) == j.t = "str" /\ Len(j.v) >= 1
IsOptStr(j) == j.t \in {"null", "str"}

\* model/artist.py: Artist(name: str min_length 1, yandex_music_id: int >= 0), frozen.
\* Two Artists are equal (and hash alike) when both fields are equal.
Artist(name, yandex_music_id) ==
    IF IsStrMin1(name) /\ yandex_music_id.t = "int" /\ yandex_music_id.v >= 0
    THEN Return([name |-> name.v, yandex_music_id |-> yandex_music_id.v])
    ELSE Raise("ValidationError")

\* model/price.py: Price(price: int >= 0, currency: str min_length 1); price is a Python int here.
Price(price, currency) ==
    IF price >= 0 /\ IsStrMin1(currency)
    THEN Return([price |-> price, currency |-> currency.v])
    ELSE Raise("ValidationError")

NoPrice == [price |-> -1, currency |-> <<>>]
NoDatetime == [date |-> "", time |-> "", utcoffset |-> ""]

ConcertFields ==
    {"title", "afisha_url", "city", "place", "address", "concert_datetime",
     "map_url", "images", "min_price", "artists"}

\* Value of a declared field: the keyword argument of that name, else the default
\* (None for every defaulted field of Concert).
FieldValue(kwargs, name, default) ==
    IF name \in DOMAIN kwargs THEN kwargs[name] ELSE default

\* model/concert.py: Concert(**kwargs).  place, address, map_url are tagged JSON
\* strings or null; concert_datetime and min_price are [some, v] options.
ConcertModel(kwargs) ==
    LET title == FieldValue(kwargs, "title", Absent)
        afisha_url == FieldValue(kwargs, "afisha_url", Absent)
        city == FieldValue(kwargs, "city", Absent)
        place == FieldValue(kwargs, "place", JNull)
        address == FieldValue(kwargs, "address", JNull)
        concert_datetime == FieldValue(kwargs, "concert_datetime", [some |-> FALSE, v |-> NoDatetime])
        map_url == FieldValue(kwargs, "map_url", JNull)
        images == FieldValue(kwargs, "images", Absent)
        min_price == FieldValue(kwargs, "min_price", [some |-> FALSE, v |-> NoPrice])
        artists == FieldValue(kwargs, "artists", <<>>)
    IN  IF /\ IsStrMin1(title) /\ IsStrMin1(afisha_url) /\ IsStrMin1(city)
           /\ IsOptStr(place) /\ IsOptStr(address) /\ IsOptStr(map_url)
           /\ images.t = "list" /\ \A i \in 1..Len(images.v) : IsStr(images.v[i])
           /\ Len(artists) >= 1
        THEN Return([title |-> title.v, afisha_url |-> afisha_url.v, city |-> city.v,
                     place |-> place, address |-> address,
                     concert_datetime |-> concert_datetime, map_url |-> map_url,
                     images |-> images.v, min_price |-> min_price, artists |-> artists])
        ELSE Raise("ValidationError")

\* model/track_list.py: TrackList(url, title: str min_length 1, image: Optional[str], artists).
TrackList(url, title, image, artists) ==
    IF Len(url) >= 1 /\ IsStrMin1(title) /\ IsOptStr(image)
    THEN Return([url |-> url, title |-> title.v, image |-> image, artists |-> artists])
    ELSE Raise("ValidationError")

-----------------------------------------------------------------------------
(* Entity extractors.                                                      *)

\* __extract_artist
extract_artist(artist) ==
    LET name == get_dict_value(artist, "name")
        id == get_dict_value(artist, "id")
    IN  IF Raised(name) THEN name
        ELSE IF Raised(id) THEN id
        ELSE Artist(name.v, id.v)

\* datetime.strptime(s, "%Y-%m-%dT%H:%M:%S%z"): a string is the sequence of its
\* pieces <<date, "T", time, offset>>; anything else does not parse.
Dates == {"2024-06-01", "2024-12-31"}
Times == {"19:00:00"}
Offsets == {"+0300"}
strptime(j) ==
    IF j.t # "str" THEN Raise("TypeError")
    ELSE IF Len(j.v) = 4 /\ j.v[1] \in Dates /\ j.v[2] = "T" /\ j.v[3] \in Times /\ j.v[4] \in Offsets
    THEN Return([date |-> j.v[1], time |-> j.v[3], utcoffset |-> j.v[4]])
    ELSE Raise("ValueError")

\* int(x) for the JSON values the model feeds it: an integer is itself, null and
\* containers are a TypeError.
PyInt(j) == IF j.t \in {"int"} THEN Return(j.v) ELSE Raise("TypeError")

\* min_price of __extract_concert (lines 319-324)
extract_min_price(concert) ==
    LET d == get_dict_value_or_none(concert, "minPrice")
    IN  IF Raised(d) THEN d
        ELSE IF ~Truthy(d.v) THEN Return([some |-> FALSE, v |-> NoPrice])
        ELSE LET value == get_dict_value(d.v, "value")
                 currency == get_dict_value(d.v, "currency")
             IN  IF Raised(value) THEN value
                 ELSE IF Raised(PyInt(value.v)) THEN PyInt(value.v)
                 ELSE IF Raised(currency) THEN currency
                 ELSE LET p == Price(PyInt(value.v).v, currency.v)
                      IN  IF Raised(p) THEN p ELSE Return([some |-> TRUE, v |-> p.v])

\* First exception among the results rs (in evaluation order), or "none".
FirstRaised(rs) ==
    LET bad == {i \in 1..Len(rs) : Raised(rs[i])}
    IN  IF bad = {} THEN "none" ELSE rs[CHOOSE i \in bad : \A k \in bad : i <= k].exc

\* __extract_concert
extract_concert(concert) ==
    LET dtraw == get_dict_value(concert, "datetime")
        concert_datetime == IF Raised(dtraw) THEN dtraw ELSE strptime(dtraw.v)
        concert_images == get_dict_value_or_none(concert, "images")
        concert_artist == get_dict_value(concert, "artist")
        min_price == extract_min_price(concert)
        title == get_dict_value(concert, "concertTitle")
        afisha_url == get_dict_value(concert, "afishaUrl")
        city == get_dict_value(concert, "city")
        place == get_dict_value_or_none(concert, "place")
        address == get_dict_value(concert, "address")
        map_url == get_dict_value(concert, "mapUrl")
        artist == IF Raised(concert_artist) THEN concert_artist ELSE extract_artist(concert_artist.v)
        first == FirstRaised(<<concert_datetime, concert_images, concert_artist, min_price,
                               title, afisha_url, city, place, address, map_url, artist>>)
    IN  IF first # "none" THEN Raise(first)
        ELSE ConcertModel([title |-> title.v, afisha_url |-> afisha_url.v, city |-> city.v,
                           place |-> place.v, address |-> address.v,
                           datetime |-> [some |-> TRUE, v |-> concert_datetime.v],
                           map_url |-> map_url.v,
                           images |-> IF IsNone(concert_images.v) THEN JList(<<>>) ELSE concert_images.v,
                           min_price |-> min_price.v,
                           artists |-> <<artist.v>>])

\* __get_cover_link: f"https://{abstract_uri[:-2]}400x400"
get_cover_link(abstract_uri) ==
    IF IsNone(abstract_uri) THEN Return(JNull)
    ELSE IF abstract_uri.t # "str" THEN Raise("TypeError")
    ELSE Return(JStr(<<"https://">> \o SubSeq(abstract_uri.v, 1, Len(abstract_uri.v) - 2) \o <<"400x400">>))

\* Iteration of a decoded JSON value by a for-loop or comprehension: a list yields
\* its elements, a string its characters, an object its keys; null, numbers and
\* booleans are not iterable.
RECURSIVE KeySeq(_)
KeySeq(ks) ==
    IF ks = {} THEN <<>>
    ELSE LET k == CHOOSE x \in ks : TRUE IN <<JStr(<<k>>)>> \o KeySeq(ks \ {k})
PyIter(j) ==
    CASE j.t = "list" -> Return(j.v)
      [] j.t = "str" -> Return([i \in 1..Len(j.v) |-> JStr(<<j.v[i]>>)])
      [] j.t = "obj" -> Return(KeySeq(DOMAIN j.f))
      [] OTHER -> Raise("TypeError")

\* [__extract_artist(a) for a in artist_dicts]
extract_artists(artist_dicts) ==
    LET it == PyIter(artist_dicts)
        rs == [i \in 1..Len(it.v) |-> extract_artist(it.v[i])]
    IN  IF Raised(it) THEN it
        ELSE IF FirstRaised(rs) # "none" THEN Raise(FirstRaised(rs))
        ELSE Return([i \in 1..Len(rs) |-> rs[i].v])

\* list(s) for a set s of Artists: the elements of s, each once, in the order the
\* hash table happens to hold them (hashOrder lists every Artist once).
ListOfSet(s, hashOrder) == SelectSeq(hashOrder, LAMBDA a : a \in s)
Range(seq) == {seq[i] : i \in 1..Len(seq)}

\* Artists of one element of playlist["tracks"] (lines 351-353)
track_artists(short_track) ==
    LET track == get_dict_value(short_track, "track")
        artists == IF Raised(track) THEN track ELSE get_dict_value(track.v, "artists")
    IN  IF Raised(artists) THEN artists ELSE extract_artists(artists.v)

\* __extract_playlist
extract_playlist(url, playlist, hashOrder) ==
    LET tracks == get_dict_value(playlist, "tracks")
        it == IF Raised(tracks) THEN tracks ELSE PyIter(tracks.v)
        rs == [i \in 1..Len(it.v) |-> track_artists(it.v[i])]
        artists == UNION {Range(rs[i].v) : i \in 1..Len(rs)}
        cover_uri == get_dict_value_or_none(playlist, "ogImage")
        title == get_dict_value(playlist, "title")
        image == get_cover_link(cover_uri.v)
    IN  IF Raised(it) THEN it
        ELSE IF FirstRaised(rs) # "none" THEN Raise(FirstRaised(rs))
        ELSE IF Raised(cover_uri) THEN cover_uri
        ELSE IF Raised(title) THEN title
        ELSE IF Raised(image) THEN image
        ELSE TrackList(url, title.v, image.v, ListOfSet(artists, hashOrder))

\* __extract_album without the set: the parsed list is returned as it is.
extract_album_without_set(url, album, hashOrder) ==
    LET artist_dicts == get_dict_value(album, "artists")
        parsed_artists == IF Raised(artist_dicts) THEN artist_dicts ELSE extract_artists(artist_dicts.v)
        cover_uri == get_dict_value_or_none(album, "ogImage")
        title == get_dict_value(album, "title")
        image == get_cover_link(cover_uri.v)
    IN  IF Raised(parsed_artists) THEN parsed_artists
        ELSE IF Raised(cover_uri) THEN cover_uri
        ELSE IF Raised(title) THEN title
        ELSE IF Raised(image) THEN image
        ELSE TrackList(url, title.v, image.v, parsed_artists.v)

\* __extract_album
extract_album(url, album, hashOrder) ==
    LET artist_dicts == get_dict_value(album, "artists")
        parsed_artists == IF Raised(artist_dicts) THEN artist_dicts ELSE extract_artists(artist_dicts.v)
        unique_parsed_artists == ListOfSet(Range(parsed_artists.v), hashOrder)
        cover_uri == get_dict_value_or_none(album, "ogImage")
        title == get_dict_value(album, "title")
        image == get_cover_link(cover_uri.v)
    IN  IF Raised(parsed_artists) THEN parsed_artists
        ELSE IF Raised(cover_uri) THEN cover_uri
        ELSE IF Raised(title) THEN title
        ELSE IF Raised(image) THEN image
        ELSE TrackList(url, title.v, image.v, unique_parsed_artists)

-----------------------------------------------------------------------------
(* URL classification.  A URL is the sequence of its pieces: the three     *)
(* path markers the patterns look for, a non-whitespace character "x", a   *)
(* blank " " and a line break "\n".  The markers begin and end with "/"    *)
(* and hold no "//", so a marker occurs in the concatenated text exactly   *)
(* where it is a piece, and every match is aligned with the pieces.        *)

UsersPiece == "/users/"
PlaylistsPiece == "/playlists/"
AlbumPiece == "/album/"
Pieces == {UsersPiece, PlaylistsPiece, AlbumPiece, "x", " ", "\n"}

\* \S
NonSpace(p) == p \notin {" ", "\n"}
\* .  (no DOTALL flag)
Dot(p) == p # "\n"
\* Positions where $ matches (no MULTILINE flag): the end of the text, and just
\* before a line break that ends the text.
DollarAt(url) ==
    {Len(url)} \cup (IF Len(url) >= 1 /\ url[Len(url)] = "\n" THEN {Len(url) - 1} ELSE {})
\* (\S+) over the pieces a..b
NonSpaceRun(url, a, b) == a <= b /\ \A k \in a..b : NonSpace(url[k])
\* ^.* over the pieces 1..b
DotRun(url, b) == \A k \in 1..b : Dot(url[k])
Max(S) == CHOOSE x \in S : \A y \in S : y <= x

\* re.match(__playlist_url_pattern, url): r"^.*/users/(\S+)/playlists/(\S+)$".
\* Backtracking keeps the longest ^.* that lets the rest match, then the longest
\* first group.
playlist_match(url) ==
    LET ms == {m \in (1..Len(url)) \X (1..Len(url)) \X DollarAt(url) :
                  /\ url[m[1]] = UsersPiece /\ DotRun(url, m[1] - 1)
                  /\ url[m[2]] = PlaylistsPiece
                  /\ NonSpaceRun(url, m[1] + 1, m[2] - 1)
                  /\ NonSpaceRun(url, m[2] + 1, m[3])}
        i == Max({m[1] : m \in ms})
        j == Max({m[2] : m \in {x \in ms : x[1] = i}})
        e == Max({m[3] : m \in {x \in ms : x[1] = i /\ x[2] = j}})
    IN  IF ms = {} THEN [matched |-> FALSE, group1 |-> <<>>, group2 |-> <<>>]
        ELSE [matched |-> TRUE, group1 |-> SubSeq(url, i + 1, j - 1), group2 |-> SubSeq(url, j + 1, e)]

\* re.match(__album_url_pattern, url): r"^.*/album/(\S+)$"
album_match(url) ==
    LET ms == {m \in (1..Len(url)) \X DollarAt(url) :
                  /\ url[m[1]] = AlbumPiece /\ DotRun(url, m[1] - 1)
                  /\ NonSpaceRun(url, m[1] + 1, m[2])}
        i == Max({m[1] : m \in ms})
        e == Max({m[2] : m \in {x \in ms : x[1] = i}})
    IN  IF ms = {} THEN [matched |-> FALSE, group1 |-> <<>>]
        ELSE [matched |-> TRUE, group1 |-> SubSeq(url, i + 1, e)]

create_artist_brief_info_api_uri(artist_id) == <<"/artists/", artist_id, "/brief-info">>
create_artist_api_uri(artist_id) == <<"/artists/", artist_id>>
create_playlist_api_uri(user_id, playlist_id) == <<"/users/">> \o user_id \o <<"/playlists/">> \o playlist_id
create_album_api_uri(album_id) == <<"/albums/">> \o album_id

-----------------------------------------------------------------------------
(* The public operations, from the answer to their GET on.  Each yields    *)
(* the way the call ends (out) and whether an extractor was entered (ran). *)

Ended(out, ran) == [out |-> out, ran |-> ran]

\* parse_artist, lines 135-146
parse_artist(r, artist_id, u, not_found_message) ==
    LET yandex_music_json == fetch_artist_data(r, u, not_found_message)
        artist == get_dict_value(yandex_music_json.value, "artist")
        result == IF Raised(artist) THEN artist ELSE extract_artist(artist.v)
    IN  IF yandex_music_json.kind # "Success" THEN Ended(yandex_music_json, FALSE)
        ELSE IF Raised(result)
        THEN Ended(InternalServiceErrorException(Msg("Parsing info about artist failed", artist_id)),
                   ~Raised(artist))
        ELSE Ended(Success(result.v), TRUE)

\* The comprehension of parse_concerts with a failing element skipped instead of
\* ending the batch.
extract_concerts_skipping_failures(concerts) ==
    LET it == PyIter(concerts)
        rs == [i \in 1..Len(it.v) |-> extract_concert(it.v[i])]
        kept == SelectSeq(rs, LAMBDA x : ~Raised(x))
    IN  IF Raised(it) THEN it
        ELSE Return([i \in 1..Len(kept) |-> kept[i].v])

\* [self.__extract_concert(c) for c in concerts]
extract_concerts(concerts) ==
    LET it == PyIter(concerts)
        rs == [i \in 1..Len(it.v) |-> extract_concert(it.v[i])]
    IN  IF Raised(it) THEN it
        ELSE IF FirstRaised(rs) # "none" THEN Raise(FirstRaised(rs))
        ELSE Return([i \in 1..Len(rs) |-> rs[i].v])

\* parse_concerts, lines 108-120
parse_concerts(r, artist_id, u, not_found_message) ==
    LET yandex_music_json == fetch_artist_data(r, u, not_found_message)
        concerts == get_dict_value(yandex_music_json.value, "concerts")
        it == IF Raised(concerts) THEN concerts ELSE PyIter(concerts.v)
        result == IF Raised(concerts) THEN concerts ELSE extract_concerts(concerts.v)
    IN  IF yandex_music_json.kind # "Success" THEN Ended(yandex_music_json, FALSE)
        ELSE IF Raised(result)
        THEN Ended(InternalServiceErrorException(Msg("Parsing concerts of artist failed", artist_id)),
                   ~Raised(it) /\ Len(it.v) > 0)
        ELSE Ended(Success(result.v), Len(it.v) > 0)

\* __parse_playlist, lines 173-186
parse_playlist(r, url, u, not_found_message, hashOrder) ==
    LET yandex_music_api_data == fetch_yandex_music_api_data(r, u, not_found_message)
        result == extract_playlist(url, yandex_music_api_data.value, hashOrder)
    IN  IF yandex_music_api_data.kind # "Success" THEN Ended(yandex_music_api_data, FALSE)
        ELSE IF Raised(result)
        THEN Ended(InternalServiceErrorException(Msg("Parsing playlist failed", url)), TRUE)
        ELSE Ended(Success(result.v), TRUE)

\* __parse_album with the error check moved behind the extraction.
parse_album_extracting_first(r, url, u, not_found_message, hashOrder) ==
    LET yandex_music_api_data == fetch_yandex_music_api_data(r, u, not_found_message)
        error == get_dict_value_or_none(yandex_music_api_data.value, "error")
        result == extract_album(url, yandex_music_api_data.value, hashOrder)
    IN  IF yandex_music_api_data.kind # "Success" THEN Ended(yandex_music_api_data, FALSE)
        ELSE IF Raised(result)
        THEN Ended(InternalServiceErrorException(Msg("Parsing album failed", url)), TRUE)
        ELSE IF Raised(error) THEN Ended(RawException(error.exc), TRUE)
        ELSE IF Truthy(error.v) THEN Ended(NotFoundException(not_found_message), TRUE)
        ELSE Ended(Success(result.v), TRUE)

\* __parse_album, lines 203-221
parse_album(r, url, u, not_found_message, hashOrder) ==
    LET yandex_music_api_data == fetch_yandex_music_api_data(r, u, not_found_message)
        error == get_dict_value_or_none(yandex_music_api_data.value, "error")
        result == extract_album(url, yandex_music_api_data.value, hashOrder)
    IN  IF yandex_music_api_data.kind # "Success" THEN Ended(yandex_music_api_data, FALSE)
        ELSE IF Raised(error) THEN Ended(RawException(error.exc), FALSE)
        ELSE IF Truthy(error.v) THEN Ended(NotFoundException(not_found_message), FALSE)
        ELSE IF Raised(result)
        THEN Ended(InternalServiceErrorException(Msg("Parsing album failed", url)), TRUE)
        ELSE Ended(Success(result.v), TRUE)

-----------------------------------------------------------------------------
(* The HTTP handlers of main.py and their response objects.                *)

SUCCESS == 0
INTERNAL_ERROR == 1
ARTIST_NOT_FOUND == 2
TRACK_LIST_NOT_FOUND == 3

\* response/response_status.py: ResponseStatus(code = SUCCESS, message = "SUCCESS")
ResponseStatus(code, message) == [code |-> code, message |-> message]
DefaultResponseStatus == ResponseStatus(SUCCESS, "SUCCESS")
NoPayload == [some |-> FALSE, v |-> JNull]
Payload(v) == [some |-> TRUE, v |-> v]

\* response/concerts_response.py: ConcertsResponse(status = ResponseStatus(), concerts = None)
ConcertsResponse(status, concerts) == [unhandled |-> "none", status |-> status, payload |-> concerts]
\* response/track_list_response.py: TrackListResponse(status = ResponseStatus(), track_list = None)
TrackListResponse(status, track_list) == [unhandled |-> "none", status |-> status, payload |-> track_list]
\* An exception neither except clause names leaves the handler.
Unhandled(e) == [unhandled |-> e, status |-> ResponseStatus(-1, ""), payload |-> NoPayload]
NoHttp == [unhandled |-> "none", status |-> ResponseStatus(-1, ""), payload |-> NoPayload]

\* get_concerts, lines 94-110, from the end of parse_concerts on
get_concerts(out, artist_id) ==
    CASE out.kind = "Success" -> ConcertsResponse(DefaultResponseStatus, Payload(out.value))
      [] out.kind = "NotFoundException" ->
            ConcertsResponse(ResponseStatus(ARTIST_NOT_FOUND, "Artist not found"), NoPayload)
      [] out.kind = "InternalServiceErrorException" ->
            ConcertsResponse(ResponseStatus(ARTIST_NOT_FOUND, "Internal service error"), NoPayload)
      [] OTHER -> Unhandled(out.kind)

\* get_tracks_list_info, lines 119-135, from the end of parse_track_list on
get_tracks_list_info(out, url) ==
    CASE out.kind = "Success" -> TrackListResponse(DefaultResponseStatus, Payload(out.value))
      [] out.kind = "NotFoundException" ->
            TrackListResponse(ResponseStatus(TRACK_LIST_NOT_FOUND, "Track list not found"), NoPayload)
      [] out.kind = "InternalServiceErrorException" ->
            TrackListResponse(ResponseStatus(INTERNAL_ERROR, "Internal service error"), NoPayload)
      [] OTHER -> Unhandled(out.kind)

-----------------------------------------------------------------------------
(* parse_track_list up to its first await (lines 81-93): the URL is tried  *)
(* against the playlist pattern, then against the album pattern.           *)

Step(k, i, u, m) == [kind |-> k, ids |-> i, uri |-> u, nfm |-> m]

\* parse_track_list with the album pattern tried before the playlist pattern.
parse_track_list_album_first(url) ==
    LET playlist_match_ == playlist_match(url)
        album_math_match == album_match(url)
    IN  IF album_math_match.matched
        THEN Step("album", <<album_math_match.group1>>,
                  create_album_api_uri(album_math_match.group1),
                  Msg("Album not found", url))
        ELSE IF playlist_match_.matched
        THEN Step("playlist", <<playlist_match_.group1, playlist_match_.group2>>,
                  create_playlist_api_uri(playlist_match_.group1, playlist_match_.group2),
                  Msg("Playlist not found", url))
        ELSE Step("none", <<>>, <<>>, Msg("Track list has incorrect URL", url))

parse_track_list(url) ==
    LET playlist_match_ == playlist_match(url)
        album_math_match == album_match(url)
    IN  IF playlist_match_.matched
        THEN Step("playlist", <<playlist_match_.group1, playlist_match_.group2>>,
                  create_playlist_api_uri(playlist_match_.group1, playlist_match_.group2),
                  Msg("Playlist not found", url))
        ELSE IF album_math_match.matched
        THEN Step("album", <<album_math_match.group1>>,
                  create_album_api_uri(album_math_match.group1),
                  Msg("Album not found", url))
        ELSE Step("none", <<>>, <<>>, Msg("Track list has incorrect URL", url))

-----------------------------------------------------------------------------
(* Inputs: the arguments of the calls and the answers of the upstream.     *)

SeqsUpTo(S, n) == UNION {[1..k -> S] : k \in 0..n}

ArtistIds == {7, 123}
Statuses == {199, 200, 299, 300, 399, 400, 404, 499, 500, 503}

ArtistJ(n, i) == MkObj([name |-> JStr(<<n>>), id |-> JInt(i)])
ValidArtistDicts == {ArtistJ("A", 1), ArtistJ("A", 2), ArtistJ("B", 2)}
BadArtistDict == MkObj([name |-> JStr(<<"A">>), id |-> Absent])
ValidArtists == {extract_artist(a).v : a \in ValidArtistDicts}
HashOrders == {h \in [1..Cardinality(ValidArtists) -> ValidArtists] : Range(h) = ValidArtists}

\* Values of an "error" key.
ErrorValues == {Absent, JNull, JStr(<<>>), JStr(<<"not-found">>)}

\* Payloads of /artists/{id}
ArtistValues ==
    {Absent, JNull, JList(<<>>), JStr(<<"x">>), JList(<<JInt(1)>>)}
    \cup {MkObj([error |-> e, name |-> n, id |-> i]) :
            e \in ErrorValues, n \in {Absent, JStr(<<>>), JStr(<<"A">>)},
            i \in {Absent, JNull, JInt(-1), JInt(123)}}
ArtistPayloads == {MkObj([artist |-> a, albums |-> x]) : a \in ArtistValues, x \in {Absent, JList(<<>>)}}
GoodArtistPayload == MkObj([artist |-> ArtistJ("A", 123), albums |-> JList(<<>>)])

\* Payloads of /artists/{id}/brief-info
GoodDatetime == JStr(<<"2024-06-01", "T", "19:00:00", "+0300">>)
GoodConcert(t) ==
    [concertTitle |-> JStr(<<t>>), afishaUrl |-> JStr(<<"u">>), city |-> JStr(<<"c">>),
     place |-> JStr(<<"p">>), address |-> JStr(<<"a">>), datetime |-> GoodDatetime,
     mapUrl |-> JStr(<<"m">>), images |-> JList(<<JStr(<<"i">>)>>),
     minPrice |-> MkObj([value |-> JInt(100), currency |-> JStr(<<"r">>)]),
     artist |-> ArtistJ("A", 1)]
ConcertKeys == DOMAIN GoodConcert("x")
Without(rec, k) == [rec EXCEPT ![k] = Absent]
ConcertFragments ==
    {MkObj(GoodConcert("x")), MkObj(GoodConcert("y"))}
    \cup {MkObj(Without(GoodConcert("x"), k)) : k \in ConcertKeys}
    \cup {MkObj([GoodConcert("x") EXCEPT !.concertTitle = JStr(<<>>)]),
          MkObj([GoodConcert("x") EXCEPT !.datetime = JStr(<<"tomorrow">>)])}
ArtistGateValues ==
    {Absent, JNull, JStr(<<"x">>), MkObj([error |-> Absent]),
     MkObj([error |-> JStr(<<>>)]), MkObj([error |-> JStr(<<"not-found">>)]), ArtistJ("A", 1)}
ConcertsValues == {Absent, JNull} \cup {JList(s) : s \in SeqsUpTo(ConcertFragments, MaxConcerts)}
ConcertsPayloads == {MkObj([artist |-> a, concerts |-> c]) : a \in ArtistGateValues, c \in ConcertsValues}
GoodConcertsPayload == MkObj([artist |-> ArtistJ("A", 1), concerts |-> JList(<<MkObj(GoodConcert("x"))>>)])

\* Payloads of /users/{user}/playlists/{playlist}
GoodTitle == JStr(<<"t">>)
GoodImage == JStr(<<"h", "/", "%", "%">>)
TrackOf(artists) == MkObj([track |-> MkObj([artists |-> artists])])
TrackValues == {TrackOf(JList(s)) : s \in SeqsUpTo(ValidArtistDicts, MaxTrackArtists)}
BadTrackValues == {TrackOf(JList(<<BadArtistDict>>)), TrackOf(Absent), MkObj([track |-> Absent])}
TracksValues ==
    {Absent, JNull}
    \cup {JList(s) : s \in SeqsUpTo(TrackValues, MaxTracks)}
    \cup {JList(<<a, b>>) : a \in {TrackOf(JList(<<ArtistJ("A", 1)>>))} \cup BadTrackValues, b \in BadTrackValues}
GoodTracks == JList(<<TrackOf(JList(<<ArtistJ("A", 1)>>)), TrackOf(JList(<<ArtistJ("A", 1)>>))>>)
PlaylistPayloads ==
    {MkObj([tracks |-> t, title |-> GoodTitle, ogImage |-> GoodImage]) : t \in TracksValues}
    \cup {MkObj([tracks |-> GoodTracks, title |-> ti, ogImage |-> og]) :
            ti \in {Absent, JStr(<<>>), GoodTitle}, og \in {Absent, JNull, JStr(<<"%">>), GoodImage}}
GoodPlaylistPayload == MkObj([tracks |-> GoodTracks, title |-> GoodTitle, ogImage |-> GoodImage])

\* Payloads of /albums/{id}
AlbumArtistsValues ==
    {Absent, JNull} \cup {JList(s) : s \in SeqsUpTo(ValidArtistDicts \cup {BadArtistDict}, MaxAlbumArtists)}
GoodAlbumArtists == JList(<<ArtistJ("A", 1), ArtistJ("B", 2), ArtistJ("A", 1)>>)
AlbumPayloads ==
    {MkObj([artists |-> a, title |-> GoodTitle, ogImage |-> GoodImage, error |-> e]) :
        a \in AlbumArtistsValues, e \in ErrorValues}
    \cup {MkObj([artists |-> GoodAlbumArtists, title |-> ti, ogImage |-> og, error |-> e]) :
            ti \in {Absent, GoodTitle}, og \in {Absent, GoodImage}, e \in ErrorValues}
GoodAlbumPayload == MkObj([artists |-> GoodAlbumArtists, title |-> GoodTitle, ogImage |-> GoodImage])

\* Bodies of every shape around one payload: not JSON, JSON that is no object,
\* an object without "result", and "result" values of every kind.
Bodies(good) ==
    {NotJson, JNull, JList(<<>>), JList(<<JInt(1)>>), JStr(<<"x">>), JInt(5),
     MkObj([result |-> Absent]), MkObj([result |-> Absent, error |-> JStr(<<"not-found">>)]),
     MkObj([result |-> JNull]), MkObj([result |-> JList(<<>>)]), MkObj([result |-> JStr(<<>>)]),
     MkObj([result |-> MkObj([error |-> Absent])]),
     MkObj([result |-> JList(<<JInt(1)>>)]), MkObj([result |-> JStr(<<"x">>)]),
     MkObj([result |-> good])}

\* Answers of the upstream: a transport failure, every status with every body
\* shape, and status 200 with every payload.
Responses(good, payloads) ==
    {TransportFailure}
    \cup {HttpAnswer(st, b) : st \in Statuses, b \in Bodies(good)}
    \cup {HttpAnswer(200, MkObj([result |-> p])) : p \in payloads}

ArtistResponses == Responses(GoodArtistPayload, ArtistPayloads)
ConcertsResponses == Responses(GoodConcertsPayload, ConcertsPayloads)
PlaylistResponses == Responses(GoodPlaylistPayload, PlaylistPayloads)
AlbumResponses == Responses(GoodAlbumPayload, AlbumPayloads)

\* Track-list URLs: one of each class for the pipeline, every sequence of pieces
\* for the classifier.
PlaylistUrl == <<"x", UsersPiece, "x", PlaylistsPiece, "x">>
AlbumUrl == <<"x", AlbumPiece, "x">>
OtherUrl == <<"x", "x">>
PipelineUrls == {PlaylistUrl, AlbumUrl, OtherUrl}
AllUrls == SeqsUpTo(Pieces, MaxUrlLen)
ClassifierPlaylistResponses ==
    {HttpAnswer(200, MkObj([result |-> GoodPlaylistPayload])), HttpAnswer(404, NotJson)}
ClassifierAlbumResponses ==
    {HttpAnswer(200, MkObj([result |-> GoodAlbumPayload])), HttpAnswer(404, NotJson)}

-----------------------------------------------------------------------------------------------------------------------------------------------------
(* The shared aiohttp session (setup, terminate) and the tasks that use it.*)

\* __session: ref is the session the attribute refers to (0: the attribute was
\* never assigned), created counts the ClientSession objects made so far, closed
\* holds the sessions that were closed.
NoSession == [ref |-> 0, created |-> 0, closed |-> {}]
\* setup: self.__session = aiohttp.ClientSession(...)
setup(s) == [ref |-> s.created + 1, created |-> s.created + 1, closed |-> s.closed]
\* terminate: await self.__session.close()
terminate(s) == [s EXCEPT !.closed = @ \cup {s.ref}]
SessionOpen(s) == s.ref # 0 /\ s.ref \notin s.closed
\* A fetch that opens a session of its own for its GET.
get_on_fresh_session(s) == setup(s)
\* self.__session.get(url=uri) reads the attribute and leaves it as it is.
session_after_get(s) == s

Tasks == 1..MaxTasks
IdleTask ==
    [pc |-> "idle", endpoint |-> "none", arg |-> <<>>, kind |-> "none", uri |-> <<>>,
     nfm |-> NoMsg, gets |-> 0, used |-> 0, answer |-> NoResp, outcome |-> Pending]

\* One slot for all tasks, as an attribute of the service would be.
response_slot_shared(t) == 1
\* The frame that holds a task's `response`: a local variable of the task's own
\* call of __fetch_yandex_music_api_data (line 276).
response_slot(t) == t

\* The fetch with a failed GET sent once more.
after_get_retrying(r, gets) ==
    IF r.fail /\ gets < 2 THEN [pc |-> "awaiting", gets |-> gets + 1]
    ELSE IF r.fail THEN [pc |-> "done", gets |-> gets]
    ELSE [pc |-> "reading", gets |-> gets]
\* What follows `await self.__session.get(...)` (lines 276-283): a raised
\* exception ends the fetch, an answer is read with response.json(); gets counts
\* the GETs the call has sent.
after_get(r, gets) ==
    IF r.fail THEN [pc |-> "done", gets |-> gets] ELSE [pc |-> "reading", gets |-> gets]

\* The call from the answer r of its GET to its end, whichever parse_* it is.  The
\* track lists the tasks are sent name one artist, so the order in which a set is
\* listed does not show.
LifeHashOrder == CHOOSE h \in HashOrders : TRUE
call_outcome(k, a, u, m, r) ==
    CASE k = "artist" -> parse_artist(r, a, u, m).out
      [] k = "concerts" -> parse_concerts(r, a, u, m).out
      [] k = "playlist" -> parse_playlist(r, a, u, m, LifeHashOrder).out
      [] k = "album" -> parse_album(r, a, u, m, LifeHashOrder).out

\* Calls and upstream answers of the tasks.
LifeEndpoints == {"parse_artist", "/concerts", "/track-lists"}
LifeArgs(e) == IF e = "/track-lists" THEN {PlaylistUrl, OtherUrl} ELSE {7}
\* The call up to its first await: what it fetches and with which message.
LifeStep(e, a) ==
    CASE e = "parse_artist" ->
            Step("artist", <<>>, create_artist_api_uri(a), Msg("Artist not found", a))
      [] e = "/concerts" ->
            Step("concerts", <<>>, create_artist_brief_info_api_uri(a), Msg("Artist not found", a))
      [] e = "/track-lists" -> parse_track_list(a)
LifePayload(k) ==
    CASE k = "artist" -> GoodArtistPayload
      [] k = "concerts" -> MkObj([artist |-> ArtistJ("A", 1), concerts |-> JList(<<>>)])
      [] k = "playlist" -> GoodPlaylistPayload
      [] k = "album" -> MkObj([artists |-> JList(<<ArtistJ("A", 1)>>), title |-> GoodTitle, ogImage |-> GoodImage])
LifeResponses(k) ==
    {TransportFailure, HttpAnswer(404, JList(<<>>)), HttpAnswer(200, MkObj([result |-> LifePayload(k)]))}

-----
(* The state machine of one call.                                          *)

Init ==
    /\ endpoint = "none" /\ arg = <<>> /\ pc = "idle" /\ kind = "none" /\ ids = <<>>
    /\ uri = <<>> /\ nfm = NoMsg /\ resp = NoResp /\ fetched = Pending /\ outcome = Pending
    /\ extractorRan = FALSE /\ http = NoHttp
    /\ session = NoSession /\ tasks = [t \in Tasks |-> IdleTask]
    /\ response = [t \in Tasks |-> NoResp]

\* parse_artist(artist_id) up to its GET (lines 131-135)
ParseArtistCall ==
    /\ pc = "idle"
    /\ \E artist_id \in ArtistIds :
        /\ endpoint' = "parse_artist" /\ arg' = artist_id /\ kind' = "artist"
        /\ uri' = create_artist_api_uri(artist_id)
        /\ nfm' = Msg("Artist not found", artist_id)
    /\ pc' = "awaiting"
    /\ UNCHANGED <<ids, resp, fetched, outcome, extractorRan, http>>
    /\ UNCHANGED lifeVars

\* GET /concerts: get_concerts and parse_concerts up to the GET (lines 104-108)
GetConcertsCall ==
    /\ pc = "idle"
    /\ \E artist_id \in ArtistIds :
        /\ endpoint' = "/concerts" /\ arg' = artist_id /\ kind' = "concerts"
        /\ uri' = create_artist_brief_info_api_uri(artist_id)
        /\ nfm' = Msg("Artist not found", artist_id)
    /\ pc' = "awaiting"
    /\ UNCHANGED <<ids, resp, fetched, outcome, extractorRan, http>>
    /\ UNCHANGED lifeVars

\* GET /track-lists: get_tracks_list_info and parse_track_list up to the GET, or
\* to the response when the URL matches neither pattern
GetTracksListInfoCall(urls) ==
    /\ pc = "idle"
    /\ \E url \in urls :
        LET s == parse_track_list(url)
        IN  /\ endpoint' = "/track-lists" /\ arg' = url
            /\ kind' = s.kind /\ ids' = s.ids /\ uri' = s.uri /\ nfm' = s.nfm
            /\ IF s.kind = "none"
               THEN /\ pc' = "done"
                    /\ outcome' = NotFoundException(s.nfm)
                    /\ http' = get_tracks_list_info(NotFoundException(s.nfm), url)
               ELSE /\ pc' = "awaiting"
                    /\ UNCHANGED <<outcome, http>>
    /\ UNCHANGED <<resp, fetched, extractorRan>>
    /\ UNCHANGED lifeVars

\* The upstream answers the GET of parse_artist; the call runs to its end.
ArtistAnswered ==
    /\ pc = "awaiting" /\ kind = "artist"
    /\ \E r \in ArtistResponses :
        LET e == parse_artist(r, arg, uri, nfm)
        IN  /\ resp' = r /\ outcome' = e.out /\ extractorRan' = e.ran
            /\ fetched' = fetch_yandex_music_api_data(r, uri, nfm)
    /\ pc' = "done"
    /\ UNCHANGED <<endpoint, arg, kind, ids, uri, nfm, http>>
    /\ UNCHANGED lifeVars

\* The upstream answers the GET of parse_concerts; the handler returns.
ConcertsAnswered ==
    /\ pc = "awaiting" /\ kind = "concerts"
    /\ \E r \in ConcertsResponses :
        LET e == parse_concerts(r, arg, uri, nfm)
        IN  /\ resp' = r /\ outcome' = e.out /\ extractorRan' = e.ran
            /\ fetched' = fetch_yandex_music_api_data(r, uri, nfm)
            /\ http' = get_concerts(e.out, arg)
    /\ pc' = "done"
    /\ UNCHANGED <<endpoint, arg, kind, ids, uri, nfm>>
    /\ UNCHANGED lifeVars

\* The upstream answers the GET of __parse_playlist; the handler returns.
PlaylistAnswered(responses) ==
    /\ pc = "awaiting" /\ kind = "playlist"
    /\ \E r \in responses, hashOrder \in HashOrders :
        LET e == parse_playlist(r, arg, uri, nfm, hashOrder)
        IN  /\ resp' = r /\ outcome' = e.out /\ extractorRan' = e.ran
            /\ fetched' = fetch_yandex_music_api_data(r, uri, nfm)
            /\ http' = get_tracks_list_info(e.out, arg)
    /\ pc' = "done"
    /\ UNCHANGED <<endpoint, arg, kind, ids, uri, nfm>>
    /\ UNCHANGED lifeVars

\* The upstream answers the GET of __parse_album; the handler returns.
AlbumAnswered(responses) ==
    /\ pc = "awaiting" /\ kind = "album"
    /\ \E r \in responses, hashOrder \in HashOrders :
        LET e == parse_album(r, arg, uri, nfm, hashOrder)
        IN  /\ resp' = r /\ outcome' = e.out /\ extractorRan' = e.ran
            /\ fetched' = fetch_yandex_music_api_data(r, uri, nfm)
            /\ http' = get_tracks_list_info(e.out, arg)
    /\ pc' = "done"
    /\ UNCHANGED <<endpoint, arg, kind, ids, uri, nfm>>
    /\ UNCHANGED lifeVars

Next ==
    \/ ParseArtistCall
    \/ GetConcertsCall
    \/ GetTracksListInfoCall(PipelineUrls)
    \/ ArtistAnswered
    \/ ConcertsAnswered
    \/ PlaylistAnswered(PlaylistResponses)
    \/ AlbumAnswered(AlbumResponses)

Spec == Init /\ [][Next]_vars

\* The classifier over every URL, each call followed to its end.
NextUrl ==
    \/ GetTracksListInfoCall(AllUrls)
    \/ PlaylistAnswered(ClassifierPlaylistResponses)
    \/ AlbumAnswered(ClassifierAlbumResponses)

SpecUrl == Init /\ [][NextUrl]_vars

-----------------------------------------------------------------------------
(* The service over its lifetime: setup, terminate and tasks whose calls   *)
(* interleave at their awaits.                                             *)

\* setup (lines 61-68)
Setup ==
    /\ session.created < MaxSetups
    /\ session' = setup(session)
    /\ UNCHANGED <<tasks, response>> /\ UNCHANGED callVars

\* terminate (lines 148-155).  Before any setup the attribute read raises and
\* nothing changes; closing a closed session changes nothing.
Terminate ==
    /\ SessionOpen(session)
    /\ session' = terminate(session)
    /\ UNCHANGED <<tasks, response>> /\ UNCHANGED callVars

\* A task enters parse_* and runs to its first await: an unrecognized URL ends it
\* with no GET; self.__session.get on a missing or closed session raises inside
\* the try of the fetch, which ends the call; otherwise the GET is sent.
TaskCall(t) ==
    /\ tasks[t].pc = "idle"
    /\ \E e \in LifeEndpoints : \E a \in LifeArgs(e) :
        LET s == LifeStep(e, a)
            called == [tasks[t] EXCEPT !.endpoint = e, !.arg = a, !.kind = s.kind,
                                       !.uri = s.uri, !.nfm = s.nfm]
        IN  IF s.kind = "none"
            THEN /\ tasks' = [tasks EXCEPT ![t] =
                        [called EXCEPT !.pc = "done", !.outcome = NotFoundException(s.nfm)]]
                 /\ UNCHANGED session
            ELSE IF ~SessionOpen(session)
            THEN /\ tasks' = [tasks EXCEPT ![t] =
                        [called EXCEPT !.pc = "done", !.used = session.ref,
                            !.outcome = call_outcome(s.kind, a, s.uri, s.nfm, TransportFailure)]]
                 /\ UNCHANGED session
            ELSE /\ session' = session_after_get(session)
                 /\ tasks' = [tasks EXCEPT ![t] =
                        [called EXCEPT !.pc = "awaiting", !.gets = 1, !.used = session'.ref]]
    /\ UNCHANGED response /\ UNCHANGED callVars

\* The GET of a task returns or raises (line 276).
TaskGetReturns(t) ==
    /\ tasks[t].pc = "awaiting"
    /\ \E r \in LifeResponses(tasks[t].kind) :
        LET k == tasks[t]
            next == after_get(r, k.gets)
        IN  /\ tasks' = [tasks EXCEPT ![t] =
                    [k EXCEPT !.pc = next.pc, !.gets = next.gets,
                              !.answer = IF next.pc = "awaiting" THEN NoResp ELSE r,
                              !.outcome = IF next.pc = "done"
                                          THEN call_outcome(k.kind, k.arg, k.uri, k.nfm, r)
                                          ELSE Pending]]
            /\ response' = IF next.pc = "reading"
                           THEN [response EXCEPT ![response_slot(t)] = r]
                           ELSE response
    /\ UNCHANGED session /\ UNCHANGED callVars

\* response.json() of a task completes (line 278) and the call runs to its end.
TaskBodyRead(t) ==
    /\ tasks[t].pc = "reading"
    /\  LET k == tasks[t]
        IN  tasks' = [tasks EXCEPT ![t] =
                [k EXCEPT !.pc = "done",
                          !.outcome = call_outcome(k.kind, k.arg, k.uri, k.nfm,
                                                   response[response_slot(t)])]]
    /\ UNCHANGED <<session, response>> /\ UNCHANGED callVars

NextLife ==
    \/ Setup
    \/ Terminate
    \/ \E t \in Tasks : TaskCall(t)
    \/ \E t \in Tasks : TaskGetReturns(t)
    \/ \E t \in Tasks : TaskBodyRead(t)

SpecLife == Init /\ [][NextLife]_vars

-----------------------------------------------------------------------------
(* Properties.                                                             *)

Fetching == kind # "none"
Answered == pc = "done" /\ Fetching
HasKey(j, k) == IsDict(j) /\ k \in DOMAIN j.f
Decoded == ~resp.fail /\ resp.body.t # "notjson"
StatusOk == 200 <= resp.status /\ resp.status <= 299
StatusClientError == 400 <= resp.status /\ resp.status <= 499

\* C1: every call of parse_track_list, parse_concerts or parse_artist ends with a
\* returned entity, NotFoundException or InternalServiceErrorException, whatever
\* the upstream answered; no other exception leaves the service.
C1_OnlyServiceOutcomes ==
    pc = "done" => outcome.kind \in ServiceKinds

\* C2 (as stated): an upstream status in 400..499 ends the fetch with NotFound
\* carrying the caller's not_found_message, whatever the body, JSON or not.
C2_ClientErrorAnyBodyIsNotFound ==
    Answered /\ ~resp.fail /\ StatusClientError => fetched = NotFoundException(nfm)

\* C2 (amended): an upstream status in 400..499 with a body that decodes as JSON,
\* of any shape, ends the fetch with NotFound carrying the caller's
\* not_found_message; with a body that is not JSON it ends with
\* InternalServiceError.  parse_artist raises NotFoundException on 404 with a JSON
\* body and InternalServiceErrorException on 503.
C2_ClientErrorJsonBodyIsNotFound ==
    /\ Answered /\ Decoded /\ StatusClientError =>
          /\ fetched = NotFoundException(nfm)
          /\ outcome = NotFoundException(nfm)
          /\ kind \in {"artist", "concerts"} => nfm = Msg("Artist not found", arg)
    /\ Answered /\ ~resp.fail /\ ~Decoded /\ StatusClientError =>
          /\ fetched.kind = "InternalServiceErrorException"
          /\ outcome.kind = "InternalServiceErrorException"
    /\ Answered /\ kind = "artist" /\ ~resp.fail /\ resp.status = 503 =>
          outcome.kind = "InternalServiceErrorException"

\* C2 witness: parse_artist(123) got a 404 whose JSON body is no object and ended
\* with NotFoundException.
C2_Witness ==
    /\ pc = "done" /\ endpoint = "parse_artist" /\ arg = 123
    /\ ~resp.fail /\ resp.status = 404 /\ resp.body.t = "list"
    /\ outcome.kind = "NotFoundException"

TruthyResult == HasKey(resp.body, "result") /\ Truthy(resp.body.f["result"])

\* C3: the generic fetch succeeds exactly when transport and decoding succeeded,
\* the status is 2xx and "result" is present and truthy, and then returns that
\* value; a 2xx answer whose "result" is absent, null or empty is an
\* InternalServiceError; a transport or decoding failure, or a status outside
\* 200..499, is an InternalServiceError.
C3_FetchClassification ==
    Answered =>
        /\ fetched.kind = "Success" <=> (Decoded /\ StatusOk /\ TruthyResult)
        /\ fetched.kind = "Success" => fetched.value = resp.body.f["result"]
        /\ (Decoded /\ StatusOk /\ ~TruthyResult) => fetched.kind = "InternalServiceErrorException"
        /\ (~Decoded \/ resp.status < 200 \/ resp.status > 499) =>
              fetched.kind = "InternalServiceErrorException"

\* C4: for /concerts and /track-lists a NotFoundException is answered with a
\* not-found code and an InternalServiceErrorException with INTERNAL_ERROR, so
\* the two kinds never share a response code.
C4_ErrorKindsKeptApart ==
    pc = "done" /\ endpoint \in {"/concerts", "/track-lists"} =>
        /\ outcome.kind = "NotFoundException" =>
              http.status.code \in {ARTIST_NOT_FOUND, TRACK_LIST_NOT_FOUND}
        /\ outcome.kind = "InternalServiceErrorException" =>
              http.status.code = INTERNAL_ERROR

ArtistFetched == Answered /\ kind \in {"artist", "concerts"} /\ fetched.kind = "Success"

\* C5: in parse_artist and parse_concerts, after a successful generic fetch, a
\* result without an "artist" key ends the call with InternalServiceErrorException,
\* and a nested artist object with an "error" key, whatever its value, ends it with
\* NotFoundException carrying the caller's not-found message.
C5_ArtistKeyAndEmbeddedError ==
    ArtistFetched =>
        /\ ~HasKey(fetched.value, "artist") => outcome.kind = "InternalServiceErrorException"
        /\ (HasKey(fetched.value, "artist") /\ HasKey(fetched.value.f["artist"], "error")) =>
              outcome = NotFoundException(nfm)

AlbumFetched == Answered /\ kind = "album" /\ fetched.kind = "Success"

\* C6 (as stated): for an album, a fetched payload with a top-level "error" key
\* ends parse_track_list with NotFoundException and the album extractor does not
\* run, whatever the rest of the payload is.
C6_AlbumErrorKeyIsNotFound ==
    AlbumFetched /\ HasKey(fetched.value, "error") =>
        outcome = NotFoundException(nfm) /\ ~extractorRan

\* C6 (amended): for an album, a fetched payload whose top-level "error" key has a
\* truthy value (not null, not empty) ends parse_track_list with NotFoundException
\* carrying the album's not-found message, and the album extractor does not run,
\* whatever the rest of the payload is; with a null or empty "error" value the
\* extractor runs and the call ends as the extraction does.
C6_AlbumTruthyErrorIsNotFound ==
    /\ (AlbumFetched /\ HasKey(fetched.value, "error") /\ Truthy(fetched.value.f["error"])) =>
          /\ outcome = NotFoundException(nfm) /\ nfm = Msg("Album not found", arg)
          /\ ~extractorRan
    /\ (AlbumFetched /\ HasKey(fetched.value, "error") /\ ~Truthy(fetched.value.f["error"])) =>
          /\ extractorRan
          /\ outcome.kind \in {"Success", "InternalServiceErrorException"}

\* C6 witness: an album payload with an error marker and no "artists" key, which
\* the extractor would reject, ended with NotFoundException.
C6_Witness ==
    /\ AlbumFetched /\ HasKey(fetched.value, "error") /\ Truthy(fetched.value.f["error"])
    /\ ~HasKey(fetched.value, "artists")
    /\ outcome.kind = "NotFoundException" /\ ~extractorRan

ConcertsReached ==
    /\ Answered /\ kind = "concerts"
    /\ fetch_artist_data(resp, uri, nfm).kind = "Success"
    /\ HasKey(fetched.value, "concerts") /\ fetched.value.f["concerts"].t = "list"
UpstreamConcerts == fetched.value.f["concerts"].v

\* C7: parse_concerts returns no partial result: when the extraction of any element
\* of "concerts" fails (a missing concertTitle, say), wherever it stands, the call
\* ends with one InternalServiceErrorException and no concerts; otherwise it returns
\* one Concert per upstream element, in upstream order.
C7_AllOrNothing ==
    ConcertsReached =>
        /\ (\E i \in 1..Len(UpstreamConcerts) : ~HasKey(UpstreamConcerts[i], "concertTitle")) =>
              outcome.kind = "InternalServiceErrorException"
        /\ IF \E i \in 1..Len(UpstreamConcerts) : Raised(extract_concert(UpstreamConcerts[i]))
           THEN /\ outcome.kind = "InternalServiceErrorException"
                /\ outcome.value = JNull /\ ~http.payload.some
           ELSE /\ outcome.kind = "Success"
                /\ Len(outcome.value) = Len(UpstreamConcerts)
                /\ \A i \in 1..Len(UpstreamConcerts) :
                      outcome.value[i].title = UpstreamConcerts[i].f["concertTitle"].v

\* C7 witness: a batch of a valid fragment followed by one without concertTitle
\* ended with InternalServiceErrorException.
C7_Witness ==
    /\ ConcertsReached /\ Len(UpstreamConcerts) = 2
    /\ ~Raised(extract_concert(UpstreamConcerts[1]))
    /\ ~HasKey(UpstreamConcerts[2], "concertTitle")
    /\ outcome.kind = "InternalServiceErrorException"

\* The artist records of the fetched playlist or album, as sent.
UpstreamArtistRecords ==
    IF kind = "playlist"
    THEN LET tracks == fetched.value.f["tracks"].v
         IN  UNION {Range(tracks[i].f["track"].f["artists"].v) : i \in 1..Len(tracks)}
    ELSE Range(fetched.value.f["artists"].v)
NameIdPair(a) == [name |-> a.f["name"].v, yandex_music_id |-> a.f["id"].v]
\* How often the pair p occurs in the fetched playlist, over all tracks.
Occurrences(p) ==
    LET tracks == fetched.value.f["tracks"].v
    IN  Cardinality({i \in 1..Len(tracks) :
                        \E a \in Range(tracks[i].f["track"].f["artists"].v) : NameIdPair(a) = p})

\* C8: the artists of a returned TrackList are, as a set, the (name, id) pairs of
\* the upstream artist records (of every track for a playlist, of the album for
\* an album), and no pair occurs twice in the list.
C8_ArtistsAreTheUpstreamSet ==
    (Answered /\ kind \in {"playlist", "album"} /\ outcome.kind = "Success") =>
        LET artists == outcome.value.artists
        IN  /\ Range(artists) = {NameIdPair(a) : a \in UpstreamArtistRecords}
            /\ \A i, j \in 1..Len(artists) : i # j => artists[i] # artists[j]

\* C8 witness: a playlist naming the same artist in three different tracks came
\* back with that artist once.
C8_Witness ==
    /\ Answered /\ kind = "playlist" /\ outcome.kind = "Success"
    /\ \E p \in Range(outcome.value.artists) : Occurrences(p) = 3
    /\ Len(outcome.value.artists) = 1

\* C10: a concert fragment that omits "datetime" but is otherwise valid is
\* extracted into a Concert without a timestamp, and parse_concerts succeeds for a
\* batch that holds such a fragment.
C10_DatetimeIsOptional ==
    (/\ ConcertsReached
     /\ \A i \in 1..Len(UpstreamConcerts) :
            UpstreamConcerts[i] \in {MkObj(GoodConcert("x")), MkObj(GoodConcert("y")),
                                      MkObj(Without(GoodConcert("x"), "datetime"))}) =>
        /\ outcome.kind = "Success"
        /\ \A i \in 1..Len(UpstreamConcerts) :
              ~HasKey(UpstreamConcerts[i], "datetime") => ~outcome.value[i].concert_datetime.some

AllNonSpace(w) == Len(w) >= 1 /\ \A k \in 1..Len(w) : NonSpace(w[k])
After(url, i) == SubSeq(url, i + 1, Len(url))

\* The ways to read url as ending in /users/U/playlists/P: <<i, j>> are the places
\* of /users/ and /playlists/, U and P are what lies between and behind them.
PlaylistEndings(url) ==
    {m \in (1..Len(url)) \X (1..Len(url)) :
        /\ url[m[1]] = UsersPiece /\ url[m[2]] = PlaylistsPiece
        /\ AllNonSpace(SubSeq(url, m[1] + 1, m[2] - 1))
        /\ AllNonSpace(After(url, m[2]))}
\* The ways to read url as ending in /album/A.
AlbumEndings(url) ==
    {i \in 1..Len(url) : url[i] = AlbumPiece /\ AllNonSpace(After(url, i))}

\* C9 (as stated): every URL ending in /users/U/playlists/P is a playlist with
\* exactly (U, P) extracted, fetched from /users/U/playlists/P; every URL ending in
\* /album/A is an album with exactly A extracted, fetched from /albums/A; the
\* playlist shape wins when both match; every other URL is Unrecognized.
C9_EndingDecidesClass ==
    endpoint = "/track-lists" =>
        /\ \A m \in PlaylistEndings(arg) :
              /\ kind = "playlist"
              /\ ids = <<SubSeq(arg, m[1] + 1, m[2] - 1), After(arg, m[2])>>
              /\ uri = <<"/users/">> \o ids[1] \o <<"/playlists/">> \o ids[2]
        /\ PlaylistEndings(arg) = {} =>
              \A i \in AlbumEndings(arg) :
                  kind = "album" /\ ids = <<After(arg, i)>> /\ uri = <<"/albums/">> \o ids[1]
        /\ (PlaylistEndings(arg) = {} /\ AlbumEndings(arg) = {}) =>
              kind = "none" /\ outcome.kind = "NotFoundException"

\* The URL without the one line break that may end it.
Chomp(url) ==
    IF Len(url) >= 1 /\ url[Len(url)] = "\n" THEN SubSeq(url, 1, Len(url) - 1) ELSE url
OneLine(w) == \A k \in 1..Len(w) : w[k] # "\n"
\* The endings the patterns accept: of the URL without a final line break, with no
\* line break before the marker.
MatchedPlaylistEndings(url) ==
    {m \in PlaylistEndings(Chomp(url)) : OneLine(SubSeq(url, 1, m[1] - 1))}
MatchedAlbumEndings(url) ==
    {i \in AlbumEndings(Chomp(url)) : OneLine(SubSeq(url, 1, i - 1))}
Last(S) == CHOOSE x \in S : \A y \in S : y <= x

\* C9 (amended): a URL that, a final line break apart, ends in /users/U/playlists/P
\* with U and P non-empty and free of whitespace and with no line break before
\* /users/ is a playlist; U and P are read from the last such /users/ and, for it,
\* the last /playlists/ (U and P may hold "/"), and the GET goes to
\* /users/U/playlists/P.  Any other URL that, a final line break apart, ends in
\* /album/A with A non-empty and free of whitespace and no line break before
\* /album/ is an album; A is read from the last such /album/ and the GET goes to
\* /albums/A.  The playlist shape is tried first and wins.  Every other URL is
\* Unrecognized: NotFoundException without a GET.
C9_PatternsDecideClass ==
    endpoint = "/track-lists" =>
        LET url == Chomp(arg)
            ps == MatchedPlaylistEndings(arg)
            as == MatchedAlbumEndings(arg)
            pi == Last({m[1] : m \in ps})
            pj == Last({m[2] : m \in {x \in ps : x[1] = pi}})
            ai == Last(as)
        IN  IF ps # {}
            THEN /\ kind = "playlist"
                 /\ ids = <<SubSeq(url, pi + 1, pj - 1), After(url, pj)>>
                 /\ uri = <<"/users/">> \o ids[1] \o <<"/playlists/">> \o ids[2]
            ELSE IF as # {}
            THEN /\ kind = "album"
                 /\ ids = <<After(url, ai)>>
                 /\ uri = <<"/albums/">> \o ids[1]
            ELSE /\ kind = "none" /\ pc = "done" /\ uri = <<>>
                 /\ outcome = NotFoundException(Msg("Track list has incorrect URL", arg))

\* C9 witness: a URL that ends both in /users/U/playlists/P and in /album/A was
\* taken as a playlist.
C9_Witness ==
    /\ endpoint = "/track-lists"
    /\ PlaylistEndings(arg) # {} /\ AlbumEndings(arg) # {}
    /\ kind = "playlist" /\ pc = "done" /\ outcome.kind = "Success"

\* C12: for every concert fragment with a well-formed "datetime", the Concert that
\* parse_concerts returns holds, in its timestamp field concert_datetime, the parsed
\* timestamp that was supplied and not the default.
C12_DatetimeReadBack ==
    (ConcertsReached /\ outcome.kind = "Success") =>
        \A i \in 1..Len(UpstreamConcerts) :
            LET supplied == strptime(UpstreamConcerts[i].f["datetime"])
            IN  /\ ~Raised(supplied)
                /\ outcome.value[i].concert_datetime = [some |-> TRUE, v |-> supplied.v]

\* C15: every response of the /concerts and /track-lists handlers carries its
\* payload if and only if status.code is SUCCESS, and no exception of the service
\* leaves a handler unhandled.
C15_EnvelopeAndNoEscape ==
    (pc = "done" /\ endpoint \in {"/concerts", "/track-lists"}) =>
        /\ http.unhandled = "none"
        /\ http.payload.some <=> http.status.code = SUCCESS

\* What the call of task record k comes to for the answer r of its GET, from its
\* own endpoint and argument alone.
OwnOutcome(k, r) ==
    LET s == LifeStep(k.endpoint, k.arg)
    IN  IF s.kind = "none" THEN NotFoundException(s.nfm)
        ELSE call_outcome(s.kind, k.arg, s.uri, s.nfm, r)
\* The call reached self.__session.get while no open session existed.
NoSessionAtGet(k) == k.pc = "done" /\ k.kind # "none" /\ k.gets = 0

\* C11: a call of parse_track_list, parse_concerts or parse_artist sends at most
\* one GET; a GET that failed ends the call with the error, with no second GET;
\* parse_track_list on an unrecognized URL raises NotFoundException having sent none.
C11_AtMostOneGetNoRetry ==
    \A t \in Tasks :
        LET k == tasks[t]
        IN  /\ k.gets <= 1
            /\ (k.pc # "idle" /\ k.answer.fail) =>
                  /\ k.pc = "done" /\ k.gets = 1
                  /\ k.outcome = InternalServiceErrorException(Msg("Downloading JSON failed", k.uri))
            /\ (k.pc # "idle" /\ k.kind = "none") =>
                  /\ k.pc = "done" /\ k.gets = 0 /\ k.outcome.kind = "NotFoundException"

\* C11 witness: one call ended on a failed GET after one GET, another ended on an
\* unrecognized URL with none.
C11_Witness ==
    \E t, u \in Tasks :
        /\ tasks[t].pc = "done" /\ tasks[t].answer.fail /\ tasks[t].gets = 1
        /\ tasks[t].outcome.kind = "InternalServiceErrorException"
        /\ tasks[u].pc = "done" /\ tasks[u].endpoint = "/track-lists" /\ tasks[u].arg = OtherUrl
        /\ tasks[u].gets = 0
        /\ tasks[u].outcome.kind = "NotFoundException"

\* C13: the session is made only by setup and closed only by terminate: a step
\* that changes it is one of the two and touches no call, and a call that sends its
\* GET sends it on the session the attribute holds and leaves the attribute alone,
\* so the calls between one setup and the terminate share one session.
C13_SessionFrame ==
    [][/\ session' # session =>
            /\ tasks' = tasks /\ response' = response
            /\ session' \in {setup(session), terminate(session)}
       /\ \A t \in Tasks :
            (tasks[t].gets = 0 /\ tasks'[t].gets = 1) =>
                SessionOpen(session) /\ tasks'[t].used = session.ref]_vars

\* C13 witness: two calls that ended differently both used the one session that
\* setup made, which is still open.
C13_Witness ==
    /\ session.created = 1 /\ SessionOpen(session)
    /\ \E t, u \in Tasks :
        /\ tasks[t].pc = "done" /\ tasks[t].gets = 1 /\ tasks[t].outcome.kind = "Success"
        /\ tasks[u].pc = "done" /\ tasks[u].gets = 1 /\ tasks[u].outcome.kind # "Success"
        /\ tasks[t].used = session.ref /\ tasks[u].used = session.ref

\* C14: with calls interleaved at their awaits, the outcome of a call that sent its
\* GET is fixed by its own argument and the answer to its own GET, and a step of
\* one call (its GET returning, late or failing, or its body being read) changes
\* nothing of any other call.
C14_RequestIsolation ==
    /\ [](\A t \in Tasks :
            (tasks[t].pc = "done" /\ tasks[t].gets = 1) =>
                tasks[t].outcome = OwnOutcome(tasks[t], tasks[t].answer))
    /\ [][\A t \in Tasks :
            tasks'[t] # tasks[t] =>
                \A u \in Tasks \ {t} : tasks'[u] = tasks[u] /\ response'[u] = response[u]]_vars

\* C14 witness: of two calls with the same argument one has returned its entity
\* while the other still waits for its GET.
C14_Witness ==
    \E t, u \in Tasks :
        /\ tasks[t].endpoint = tasks[u].endpoint /\ tasks[t].arg = tasks[u].arg
        /\ tasks[u].pc = "awaiting"
        /\ tasks[t].pc = "done" /\ tasks[t].outcome.kind = "Success"

\* C16: a call that reaches its GET while there is no open session (none set up
\* yet, or the session closed) ends with InternalServiceErrorException, whatever
\* order setup, terminate and the calls come in.
C16_NoSessionIsInternalError ==
    \A t \in Tasks :
        NoSessionAtGet(tasks[t]) =>
            tasks[t].outcome = InternalServiceErrorException(Msg("Downloading JSON failed", tasks[t].uri))

\* C16 witness: one call was made before any setup, another after terminate.
C16_Witness ==
    \E t, u \in Tasks :
        /\ NoSessionAtGet(tasks[t]) /\ tasks[t].used = 0
        /\ NoSessionAtGet(tasks[u]) /\ tasks[u].used = 1
        /\ tasks[t].outcome.kind = "InternalServiceErrorException"
        /\ tasks[u].outcome.kind = "InternalServiceErrorException"

====
